---- MODULE Spec2Model ----
(***************************************************************************)
(* Identity reconciliation: the /identify handler of src/main.py over the  *)
(* contacts table.                                                         *)
(*                                                                         *)
(* Spec      one call at a time: every Identify call runs from its first   *)
(*           line to its return before the next one starts.                *)
(* SpecConc  two request threads (FastAPI runs a sync handler in a thread  *)
(*           pool), each with its own Session; one step per store access.  *)
(*                                                                         *)
(* Strings are numbered: an email or a phone number is Null (None),        *)
(* EmptyStr ("") or one of 1..NumEmails / 1..NumPhones.  The lists of a    *)
(* response are kept as sets (the handler builds emails and phoneNumbers   *)
(* from set comprehensions; the order of secondaryContactIds is the order  *)
(* of the query result, which the store does not fix).                     *)
(***************************************************************************)
EXTENDS Integers, Sequences, FiniteSets, TLC

\* Bounds of the model: the rows of the table under Spec and under SpecWide,
\* and the distinct emails and phone numbers.
MaxContacts == 3
WideContacts == 4
NumEmails == 2
NumPhones == 2

\* Optional[str] = None, and the empty string (both falsy in Python).
Null == 0
EmptyStr == -1

EmailValues == 1..NumEmails
PhoneValues == 1..NumPhones

VARIABLES
    contacts,   \* the contacts table: a sequence of rows, row i has id i
    clock,      \* datetime.utcnow(), advanced by every commit
    call,       \* the last Identify call run to completion (sequential)
    sessions    \* the request threads of SpecConc, each with its Session

vars == <<contacts, clock, call, sessions>>

-----------------------------------------------------------------------------
\* The data model.

\* A row of the contacts table (deletedAt is never set and is left out).
Contact(id, email, phoneNumber, linkedId, linkPrecedence, now) ==
    [id |-> id, email |-> email, phoneNumber |-> phoneNumber,
     linkedId |-> linkedId, linkPrecedence |-> linkPrecedence,
     createdAt |-> now, updatedAt |-> now]

\* Python truthiness of an Optional[str]: None and "" are falsy.
Truthy(s) == s # Null /\ s # EmptyStr

ContactResponse(primaryContactId, emails, phoneNumbers, secondaryContactIds) ==
    [primaryContactId |-> primaryContactId, emails |-> emails,
     phoneNumbers |-> phoneNumbers, secondaryContactIds |-> secondaryContactIds]

NoResponse == ContactResponse(Null, {}, {}, {})

Ids(cs) == 1..Len(cs)

-----------------------------------------------------------------------------
\* The helpers and the steps of identify, as functions of the table.

\* Line 83 written with "is None" in place of "not": an empty string passes.
InvalidRequest_NoneOnly(email, phoneNumber) ==
    email = Null /\ phoneNumber = Null

\* Lines 83-84 left out: every request passes.
InvalidRequest_Never(email, phoneNumber) == FALSE

\* Line 83: the request carries neither an email nor a phone number.
InvalidRequest(email, phoneNumber) == ~Truthy(email) /\ ~Truthy(phoneNumber)

\* Lines 87-96 without lines 90-91: only the email is matched.
MatchingContacts_EmailOnly(cs, email, phoneNumber) ==
    {i \in Ids(cs) : Truthy(email) /\ cs[i].email = email}

\* Lines 87-96: ids of the rows with the given email or the given phone
\* number; a clause is there only for a truthy field.
MatchingContacts(cs, email, phoneNumber) ==
    {i \in Ids(cs) : \/ Truthy(email) /\ cs[i].email = email
                     \/ Truthy(phoneNumber) /\ cs[i].phoneNumber = phoneNumber}

\* Line 119: the matches that are primary.
PrimaryContacts(cs, matching) ==
    {i \in matching : cs[i].linkPrecedence = "primary"}

\* Lines 124-125 with the sort reversed: the youngest matched primary.
OldestPrimary_Youngest(cs, primaries) ==
    CHOOSE i \in primaries :
        \A j \in primaries : cs[i].createdAt >= cs[j].createdAt

\* Lines 124-126: the matched primary with the lowest createdAt.
OldestPrimary(cs, primaries) ==
    CHOOSE i \in primaries :
        \A j \in primaries : cs[i].createdAt <= cs[j].createdAt

\* Lines 129-134 without line 130: the other matched primaries get their
\* linkedId and stay primary.
Demote_KeepsRole(cs, oldest, others, now) ==
    [i \in Ids(cs) |->
        IF i \in others
        THEN [cs[i] EXCEPT !.linkedId = oldest, !.updatedAt = now]
        ELSE cs[i]]

\* Lines 129-134 with the loop over primary_contacts instead of
\* primary_contacts[1:]: the oldest matched primary is demoted too.
Demote_WithOldest(cs, oldest, others, now) ==
    [i \in Ids(cs) |->
        IF i \in others \cup {oldest}
        THEN [cs[i] EXCEPT !.linkPrecedence = "secondary",
                           !.linkedId = IF i = oldest THEN Null ELSE oldest,
                           !.updatedAt = now]
        ELSE cs[i]]

\* Lines 129-134 without line 131: the demoted rows keep linkedId None.
Demote_Unlinked(cs, oldest, others, now) ==
    [i \in Ids(cs) |->
        IF i \in others
        THEN [cs[i] EXCEPT !.linkPrecedence = "secondary", !.updatedAt = now]
        ELSE cs[i]]

\* Lines 129-134: every other matched primary becomes a secondary of the
\* oldest one; nothing else is written.
Demote(cs, oldest, others, now) ==
    [i \in Ids(cs) |->
        IF i \in others
        THEN [cs[i] EXCEPT !.linkPrecedence = "secondary",
                           !.linkedId = oldest,
                           !.updatedAt = now]
        ELSE cs[i]]

\* Lines 58-66: follow linkedId to a primary row; Null stands for None.
RECURSIVE find_primary_contact(_, _)
find_primary_contact(cs, contact_id) ==
    IF contact_id \notin Ids(cs) THEN Null
    ELSE IF cs[contact_id].linkPrecedence = "primary" THEN contact_id
    ELSE find_primary_contact(cs, cs[contact_id].linkedId)

\* Lines 73-76: the secondaries whose linkedId is the given id.
SecondaryContacts(cs, primary_id) ==
    {i \in Ids(cs) : cs[i].linkedId = primary_id
                     /\ cs[i].linkPrecedence = "secondary"}

\* Lines 68-78: the primary and its secondaries; nothing when the row is
\* missing or is not primary.
get_all_linked_contacts(cs, primary_id) ==
    IF primary_id \notin Ids(cs) \/ cs[primary_id].linkPrecedence # "primary"
    THEN {}
    ELSE {primary_id} \cup SecondaryContacts(cs, primary_id)

\* Lines 148 and 166: the truthy emails of a set of rows.
EmailsOf(cs, ids) == {cs[i].email : i \in {j \in ids : Truthy(cs[j].email)}}

\* Lines 149 and 167: the truthy phone numbers of a set of rows.
PhonesOf(cs, ids) ==
    {cs[i].phoneNumber : i \in {j \in ids : Truthy(cs[j].phoneNumber)}}

\* Lines 151-152 with "and" in place of "or".
NeedsSecondary_Both(cs, linked, email, phoneNumber) ==
    /\ Truthy(email) /\ email \notin EmailsOf(cs, linked)
    /\ Truthy(phoneNumber) /\ phoneNumber \notin PhonesOf(cs, linked)

\* Lines 151-152: the request brings an email or a phone number that the
\* linked contacts do not have.
NeedsSecondary(cs, linked, email, phoneNumber) ==
    \/ Truthy(email) /\ email \notin EmailsOf(cs, linked)
    \/ Truthy(phoneNumber) /\ phoneNumber \notin PhonesOf(cs, linked)

\* Lines 100-106 and 154-161: db.add and db.commit of a new row; the store
\* assigns the next id.
Insert(cs, email, phoneNumber, linkedId, linkPrecedence, now) ==
    Append(cs, Contact(Len(cs) + 1, email, phoneNumber, linkedId,
                       linkPrecedence, now))

\* Lines 166-177: the response over the linked contacts.
BuildResponse(cs, primary_id, linked) ==
    ContactResponse(primary_id, EmailsOf(cs, linked), PhonesOf(cs, linked),
                    {i \in linked : cs[i].linkPrecedence = "secondary"})

\* The outcome of a call: the table and clock it leaves, its status, its
\* response, whether it issued a query, and the number of its commits.
Outcome(cs, now, status, response, queried, commits) ==
    [contacts |-> cs, clock |-> now, status |-> status, response |-> response,
     queried |-> queried, commits |-> commits]

\* Lines 112-113 without their guards: a falsy field goes into the lists.
NewPrimary_Unguarded(cs, now, email, phoneNumber) ==
    LET after == Insert(cs, email, phoneNumber, Null, "primary", now)
    IN  Outcome(after, now + 1, "ok",
                ContactResponse(Len(after), {email}, {phoneNumber}, {}),
                TRUE, 1)

\* Lines 99-116: no match, a new primary contact.
NewPrimary(cs, now, email, phoneNumber) ==
    LET after == Insert(cs, email, phoneNumber, Null, "primary", now)
    IN  Outcome(after, now + 1, "ok",
                ContactResponse(Len(after),
                                IF Truthy(email) THEN {email} ELSE {},
                                IF Truthy(phoneNumber) THEN {phoneNumber} ELSE {},
                                {}),
                TRUE, 1)

\* Lines 119-134: the table after the merge of the matched primaries (the
\* table as it was when at most one match is primary).
Merged(cs, now, matching) ==
    LET primaries == PrimaryContacts(cs, matching)
        oldest    == OldestPrimary(cs, primaries)
    IN  IF Cardinality(primaries) > 1
        THEN Demote(cs, oldest, primaries \ {oldest}, now)
        ELSE cs

\* Lines 119-177: some rows match.  first is matching_contacts[0], the row
\* the store happens to return first.
Consolidate(cs, now, email, phoneNumber, matching, first) ==
    LET primaries == PrimaryContacts(cs, matching)
        merge     == Cardinality(primaries) > 1
        oldest    == OldestPrimary(cs, primaries)
        cs1       == Merged(cs, now, matching)
        now1      == IF merge THEN now + 1 ELSE now
        primary   == IF primaries # {} THEN oldest
                     ELSE find_primary_contact(cs1, cs1[first].linkedId)
        linked    == get_all_linked_contacts(cs1, primary)
        create    == NeedsSecondary(cs1, linked, email, phoneNumber)
        cs2       == IF create
                     THEN Insert(cs1, email, phoneNumber, primary,
                                 "secondary", now1)
                     ELSE cs1
        now2      == IF create THEN now1 + 1 ELSE now1
        linked2   == IF create THEN linked \cup {Len(cs2)} ELSE linked
    IN  IF primary = Null
        THEN \* line 145: None has no attribute id (an unhandled exception);
             \* a demotion of line 134 stays committed
             Outcome(cs1, now1, "ServerError", NoResponse, TRUE,
                     IF merge THEN 1 ELSE 0)
        ELSE Outcome(cs2, now2, "ok", BuildResponse(cs2, primary, linked2),
                     TRUE,
                     (IF merge THEN 1 ELSE 0) + (IF create THEN 1 ELSE 0))

\* Lines 81-177: the whole handler.
identify(cs, now, email, phoneNumber, first) ==
    IF InvalidRequest(email, phoneNumber)
    THEN Outcome(cs, now, "InvalidRequest", NoResponse, FALSE, 0)
    ELSE LET matching == MatchingContacts(cs, email, phoneNumber)
         IN  IF matching = {}
             THEN NewPrimary(cs, now, email, phoneNumber)
             ELSE Consolidate(cs, now, email, phoneNumber, matching, first)

\* A call that a store failure ends (a query or a commit raises, the
\* exception leaves the handler and get_db closes the Session): the table it
\* may leave.  Before the commit of line 106 or 134 nothing is written; after
\* the commit of line 134 the demotions stay, whatever fails later.
interrupted(cs, now, email, phoneNumber) ==
    IF InvalidRequest(email, phoneNumber)
    THEN {}
    ELSE LET matching == MatchingContacts(cs, email, phoneNumber)
             after    == Merged(cs, now, matching)
         IN  {Outcome(cs, now, "StoreFailure", NoResponse, TRUE, 0)} \cup
             IF after # cs
             THEN {Outcome(after, now + 1, "StoreFailure", NoResponse, TRUE, 1)}
             ELSE {}

\* The rows the store may return first for a request: any matching row.
\* matching_contacts[0] is read on line 142 alone, when no match is primary;
\* otherwise Null stands for whichever row came first.
FirstChoices(cs, email, phoneNumber) ==
    LET matching == MatchingContacts(cs, email, phoneNumber)
    IN  IF matching = {} \/ PrimaryContacts(cs, matching) # {}
        THEN {Null}
        ELSE matching

\* What a request may carry in each field.  Emails (and phone numbers) are
\* interchangeable names, so a request that brings one the table has not seen
\* brings the lowest unseen one: every table is reached up to renaming.
Highest(S) == IF S = {} THEN 0 ELSE CHOOSE x \in S : \A y \in S : y <= x

EmailInputs(cs) ==
    {Null, EmptyStr} \cup
    {e \in EmailValues : e <= Highest(EmailsOf(cs, Ids(cs))) + 1}

PhoneInputs(cs) ==
    {Null, EmptyStr} \cup
    {p \in PhoneValues : p <= Highest(PhonesOf(cs, Ids(cs))) + 1}

-----------------------------------------------------------------------------
\* One call at a time.

\* What the last completed call did: its status, the role of the row it
\* inserted ("none" when it inserted none) and the ids it demoted.
CallRecord(status, created, demoted) ==
    [status |-> status, created |-> created, demoted |-> demoted]

NoCall == CallRecord("none", "none", {})

\* The request threads and a thread that serves no request.  A Session holds
\* the objects it has loaded (its identity map): a query returns the loaded
\* object for a row it already holds, with the attributes as first read, and
\* a commit expires every object.
Threads == {"t1", "t2"}

Session(pc, email, phoneNumber, loaded, primary, others, linked, pending, status, response) ==
    [pc |-> pc, email |-> email, phoneNumber |-> phoneNumber,
     loaded |-> loaded, primary |-> primary, others |-> others,
     linked |-> linked, pending |-> pending,
     status |-> status, response |-> response]

NoObjects == <<>>

Idle == Session("idle", Null, Null, NoObjects, Null, {}, {}, {}, "none",
                NoResponse)

NoSessions == [t \in Threads |-> Idle]

Init ==
    /\ contacts = <<>>
    /\ clock = 1
    /\ call = NoCall
    /\ sessions = NoSessions

\* The rows of cs that out no longer holds as they were in role or link.
Demoted(cs, out) ==
    {i \in Ids(cs) : out.contacts[i].linkPrecedence # cs[i].linkPrecedence}

\* The role of the row out added to cs.
Created(cs, out) ==
    IF Len(out.contacts) > Len(cs)
    THEN out.contacts[Len(out.contacts)].linkPrecedence
    ELSE "none"

\* POST /identify, from the request to the response, on a table that holds
\* at most max rows afterwards.
Identify(max, email, phoneNumber, first) ==
    LET out == identify(contacts, clock, email, phoneNumber, first)
    IN  /\ Len(out.contacts) <= max
        /\ contacts' = out.contacts
        /\ clock' = out.clock
        /\ call' = CallRecord(out.status, Created(contacts, out),
                              Demoted(contacts, out))
        /\ UNCHANGED sessions

\* POST /identify ended by a store failure.
IdentifyFails(email, phoneNumber) ==
    \E out \in interrupted(contacts, clock, email, phoneNumber) :
        /\ contacts' = out.contacts
        /\ clock' = out.clock
        /\ call' = CallRecord(out.status, Created(contacts, out),
                              Demoted(contacts, out))
        /\ UNCHANGED sessions

\* The requests a call may carry, with the row the store returns first.
\* An empty phone number comes only with a falsy email (the request line 83
\* rejects); an empty email comes with any phone number.
Requests(cs) ==
    UNION {{<<email, phoneNumber, first>> :
                first \in FirstChoices(cs, email, phoneNumber)} :
           <<email, phoneNumber>> \in
                {q \in EmailInputs(cs) \X PhoneInputs(cs) :
                    q[2] = EmptyStr => ~Truthy(q[1])}}

Next ==
    \E r \in Requests(contacts) : Identify(MaxContacts, r[1], r[2], r[3])

Spec == Init /\ [][Next]_vars

\* The same calls on a table one row larger.
NextWide ==
    \E r \in Requests(contacts) : Identify(WideContacts, r[1], r[2], r[3])

SpecWide == Init /\ [][NextWide]_vars

\* Calls that complete and calls that a store failure ends.
NextFail ==
    \E r \in Requests(contacts) :
        \/ Identify(MaxContacts, r[1], r[2], r[3])
        \/ IdentifyFails(r[1], r[2])

SpecFail == Init /\ [][NextFail]_vars

-----------------------------------------------------------------------------
\* Two request threads.  Each step is one access to the store (a query or a
\* commit) with the lines that follow it up to the next access.  pysqlite
\* opens a transaction at the first INSERT or UPDATE, not at a SELECT, so a
\* query reads the last committed table and holds nothing; a commit writes
\* the pending rows in one transaction.

\* The objects a query returns for the rows ids: those the Session already
\* holds keep their attributes, the others are read from the table.
Load(loaded, cs, ids) ==
    [i \in (DOMAIN loaded) \cup ids |->
        IF i \in DOMAIN loaded THEN loaded[i] ELSE cs[i]]

\* The request is over: the Session is closed (line 40).
Finish(status, response) ==
    Session("done", Null, Null, NoObjects, Null, {}, {}, {}, status, response)

Active(t) == sessions[t].pc \notin {"idle", "done"}

\* Every call that has begun can insert its row within the bound.
Room(t) ==
    Len(contacts) + Cardinality({u \in Threads \ {t} : Active(u)})
        < WideContacts

\* Lines 148-177 on the objects of the Session: the response, or the
\* decision to insert a secondary.
AfterLinked(ss, linked) ==
    IF NeedsSecondary(ss.loaded, linked, ss.email, ss.phoneNumber)
    THEN [ss EXCEPT !.pc = "insert_secondary", !.linked = linked]
    ELSE Finish("ok", BuildResponse(ss.loaded, ss.primary, linked))

\* Lines 81-96: the request arrives and the matching rows are read; lines
\* 99, 119-126 and 136-142 decide what comes next.
Begin(t, email, phoneNumber, first) ==
    /\ ~Active(t)
    /\ Room(t)
    /\ first \in FirstChoices(contacts, email, phoneNumber)
    /\ LET matching  == MatchingContacts(contacts, email, phoneNumber)
           primaries == PrimaryContacts(contacts, matching)
           loaded    == Load(NoObjects, contacts, matching)
           oldest    == OldestPrimary(contacts, primaries)
           ss        == Session("match", email, phoneNumber, loaded, Null, {},
                                {}, {}, "none", NoResponse)
       IN  sessions' = [sessions EXCEPT ![t] =
             IF InvalidRequest(email, phoneNumber)
                THEN Finish("InvalidRequest", NoResponse)
             ELSE IF matching = {}
                THEN [ss EXCEPT !.pc = "insert_primary"]
             ELSE IF Cardinality(primaries) > 1
                THEN [ss EXCEPT !.pc = "demote", !.primary = oldest,
                                !.others = primaries \ {oldest}]
             ELSE IF primaries # {}
                THEN [ss EXCEPT !.pc = "secondaries", !.primary = oldest]
             ELSE [ss EXCEPT !.pc = "resolve",
                             !.primary = loaded[first].linkedId]]
    /\ UNCHANGED <<contacts, clock, call>>

\* Lines 100-116: the new primary is committed and returned.
InsertPrimary(t) ==
    LET ss  == sessions[t]
        out == NewPrimary(contacts, clock, ss.email, ss.phoneNumber)
    IN  /\ ss.pc = "insert_primary"
        /\ contacts' = out.contacts
        /\ clock' = out.clock
        /\ sessions' = [sessions EXCEPT ![t] = Finish(out.status, out.response)]
        /\ UNCHANGED call

\* Lines 129-134: the demotions are committed; every object expires (the
\* list primary_contacts still names the demoted rows).
DemoteCommit(t) ==
    LET ss == sessions[t]
    IN  /\ ss.pc = "demote"
        /\ contacts' = Demote(contacts, ss.primary, ss.others, clock)
        /\ clock' = clock + 1
        /\ sessions' = [sessions EXCEPT ![t] =
              [ss EXCEPT !.pc = "get_primary", !.loaded = NoObjects]]
        /\ UNCHANGED call

\* Lines 59-66: one query of find_primary_contact.  A row that is missing
\* gives None, and line 145 fails on it.
Resolve(t) ==
    LET ss     == sessions[t]
        loaded == Load(ss.loaded, contacts, {ss.primary})
    IN  /\ ss.pc = "resolve"
        /\ sessions' = [sessions EXCEPT ![t] =
              IF ss.primary \notin Ids(contacts)
                 THEN Finish("ServerError", NoResponse)
              ELSE IF loaded[ss.primary].linkPrecedence = "primary"
                 THEN [ss EXCEPT !.pc = "secondaries", !.loaded = loaded]
              ELSE [ss EXCEPT !.loaded = loaded,
                              !.primary = loaded[ss.primary].linkedId]]
        /\ UNCHANGED <<contacts, clock, call>>

\* Lines 145 and 69-71 after a commit: the expired primary is read again.
\* When it is no longer primary the linked contacts are empty.
GetPrimary(t) ==
    LET ss     == sessions[t]
        loaded == Load(ss.loaded, contacts, {ss.primary})
    IN  /\ ss.pc = "get_primary"
        /\ sessions' = [sessions EXCEPT ![t] =
              IF loaded[ss.primary].linkPrecedence = "primary"
                 THEN [ss EXCEPT !.pc = "secondaries", !.loaded = loaded]
              ELSE AfterLinked([ss EXCEPT !.loaded = loaded], {})]
        /\ UNCHANGED <<contacts, clock, call>>

\* Lines 73-78 and 148-177: the secondaries of the primary are read (the
\* filter is evaluated by the store); then the novelty check.
Secondaries(t) ==
    LET ss     == sessions[t]
        linked == {ss.primary} \cup SecondaryContacts(contacts, ss.primary)
        loaded == Load(ss.loaded, contacts, linked)
    IN  /\ ss.pc = "secondaries"
        /\ sessions' = [sessions EXCEPT ![t] =
              AfterLinked([ss EXCEPT !.loaded = loaded], linked)]
        /\ UNCHANGED <<contacts, clock, call>>

\* Lines 154-163: the new secondary is committed and read back; every other
\* object expires.
InsertSecondary(t) ==
    LET ss    == sessions[t]
        after == Insert(contacts, ss.email, ss.phoneNumber, ss.primary,
                        "secondary", clock)
        new   == Len(after)
    IN  /\ ss.pc = "insert_secondary"
        /\ contacts' = after
        /\ clock' = clock + 1
        /\ sessions' = [sessions EXCEPT ![t] =
              [ss EXCEPT !.pc = "refresh",
                         !.loaded = Load(NoObjects, after, {new}),
                         !.pending = ss.linked,
                         !.linked = ss.linked \cup {new}]]
        /\ UNCHANGED call

\* Lines 166-177 after the commit: reading an attribute of an expired
\* object reads its row again, one object at a time; then the response.
Refresh(t) ==
    LET ss == sessions[t]
    IN  /\ ss.pc = "refresh"
        /\ IF ss.pending = {}
           THEN sessions' = [sessions EXCEPT ![t] =
                    Finish("ok", BuildResponse(ss.loaded, ss.primary,
                                               ss.linked))]
           ELSE \E i \in ss.pending :
                    sessions' = [sessions EXCEPT ![t] =
                        [ss EXCEPT !.loaded = Load(ss.loaded, contacts, {i}),
                                   !.pending = ss.pending \ {i}]]
        /\ UNCHANGED <<contacts, clock, call>>

NextConc ==
    \E t \in Threads :
        \/ \E r \in Requests(contacts) : Begin(t, r[1], r[2], r[3])
        \/ InsertPrimary(t)
        \/ DemoteCommit(t)
        \/ Resolve(t)
        \/ GetPrimary(t)
        \/ Secondaries(t)
        \/ InsertSecondary(t)
        \/ Refresh(t)

SpecConc == Init /\ [][NextConc]_vars

-----------------------------------------------------------------------------
\* Identities, for the properties below.

\* The primary a row resolves to by following linkedId (Null when the walk
\* leaves the table).
ResolvesTo(cs, i) == find_primary_contact(cs, i)

\* The identity of a primary: every row that resolves to it.
IdentityOf(cs, primary) == {i \in Ids(cs) : ResolvesTo(cs, i) = primary}

\* Two rows share an email, share a phone number, or one links to the other.
Adjacent(cs, i, j) ==
    \/ Truthy(cs[i].email) /\ cs[i].email = cs[j].email
    \/ Truthy(cs[i].phoneNumber) /\ cs[i].phoneNumber = cs[j].phoneNumber
    \/ cs[i].linkedId = j
    \/ cs[j].linkedId = i

\* The connected identity graph that holds the rows of S.
RECURSIVE GraphOf(_, _)
GraphOf(cs, S) ==
    LET T == S \cup {j \in Ids(cs) : \E i \in S : Adjacent(cs, i, j)}
    IN  IF T = S THEN S ELSE GraphOf(cs, T)

\* The valid requests on a table, and the outcome of a request.
ValidRequests(cs) == {r \in Requests(cs) : ~InvalidRequest(r[1], r[2])}

OutcomeOf(cs, now, r) == identify(cs, now, r[1], r[2], r[3])

\* The set of a request's field, empty when the field is falsy.
Given(s) == IF Truthy(s) THEN {s} ELSE {}

-----------------------------------------------------------------------------
\* C1: every secondary row has a linkedId that refers to a primary row: no
\* linkedId points to a row that itself has a linkedId.
C1_TwoLevelLinkage ==
    \A i \in Ids(contacts) :
        /\ contacts[i].linkPrecedence = "secondary" =>
              /\ contacts[i].linkedId \in Ids(contacts)
              /\ contacts[contacts[i].linkedId].linkPrecedence = "primary"
        /\ contacts[i].linkedId \in Ids(contacts) =>
              contacts[contacts[i].linkedId].linkedId = Null

\* C2: every connected identity graph holds exactly one primary row, so two
\* rows that share an email or a phone number resolve to the same primary.
C2_OnePrimaryPerGraph ==
    \A i \in Ids(contacts) :
        /\ Cardinality({j \in GraphOf(contacts, {i}) :
                          contacts[j].linkPrecedence = "primary"}) = 1
        /\ \A j \in Ids(contacts) :
              Adjacent(contacts, i, j) =>
                  ResolvesTo(contacts, i) = ResolvesTo(contacts, j)

\* C3: a valid request run twice in a row gets the same response both times
\* and the second run leaves the table as the first run left it.
C3_Idempotent ==
    \A r \in ValidRequests(contacts) :
        LET once == OutcomeOf(contacts, clock, r)
        IN  \A first \in FirstChoices(once.contacts, r[1], r[2]) :
                LET twice == identify(once.contacts, once.clock, r[1], r[2],
                                      first)
                IN  /\ twice.contacts = once.contacts
                    /\ twice.response = once.response

\* C4: a call that matches more than one primary keeps the one with the
\* lowest createdAt primary, makes every other one a secondary linked to it,
\* and answers with the survivor as primary, the demoted ids among the
\* secondary ids, and the emails and phone numbers of all of them.
C4_MergeTieBreak ==
    \A r \in ValidRequests(contacts) :
        LET primaries == PrimaryContacts(contacts,
                            MatchingContacts(contacts, r[1], r[2]))
            out == OutcomeOf(contacts, clock, r)
        IN  Cardinality(primaries) > 1 =>
              \E survivor \in primaries :
                /\ \A j \in primaries \ {survivor} :
                      /\ contacts[survivor].createdAt < contacts[j].createdAt
                      /\ out.contacts[j].linkPrecedence = "secondary"
                      /\ out.contacts[j].linkedId = survivor
                      /\ j \in out.response.secondaryContactIds
                /\ out.contacts[survivor].linkPrecedence = "primary"
                /\ out.contacts[survivor].linkedId = Null
                /\ out.status = "ok"
                /\ out.response.primaryContactId = survivor
                /\ EmailsOf(contacts, primaries) \subseteq out.response.emails
                /\ PhonesOf(contacts, primaries)
                      \subseteq out.response.phoneNumbers

\* C4 witness: the last call merged two identities: it demoted a primary.
C4_Witness ==
    /\ call.status = "ok"
    /\ call.demoted # {}
    /\ \A j \in call.demoted : contacts[j].linkPrecedence = "secondary"

\* C5: when the identity a request belongs to already holds the given email
\* and the given phone number, the call leaves the table unchanged.
C5_NoOpOnFullCoverage ==
    \A r \in ValidRequests(contacts) :
        LET matching == MatchingContacts(contacts, r[1], r[2])
            roots == {ResolvesTo(contacts, i) : i \in matching}
        IN  \A primary \in roots :
              ( /\ roots = {primary}
                /\ primary # Null
                /\ Given(r[1]) \subseteq
                      EmailsOf(contacts, IdentityOf(contacts, primary))
                /\ Given(r[2]) \subseteq
                      PhonesOf(contacts, IdentityOf(contacts, primary)) )
              => OutcomeOf(contacts, clock, r).contacts = contacts

\* C6: however two concurrent calls interleave, at most one of them creates
\* a row for a new email or phone number: no two primary rows share an email
\* or a phone number.
C6_NoDuplicateCreation ==
    \A i, j \in Ids(contacts) :
        ( /\ i # j
          /\ contacts[i].linkPrecedence = "primary"
          /\ contacts[j].linkPrecedence = "primary" )
        => /\ Truthy(contacts[i].email) =>
                 contacts[i].email # contacts[j].email
           /\ Truthy(contacts[i].phoneNumber) =>
                 contacts[i].phoneNumber # contacts[j].phoneNumber

\* C7: the response describes the whole identity of its primary: the emails
\* and phone numbers of every row that resolves to it after the call, and
\* the ids of those rows that are secondary.
C7_ResponseComplete ==
    \A r \in ValidRequests(contacts) :
        LET out == OutcomeOf(contacts, clock, r)
            identity == IdentityOf(out.contacts, out.response.primaryContactId)
        IN  out.status = "ok" =>
              /\ out.response.emails = EmailsOf(out.contacts, identity)
              /\ out.response.phoneNumbers = PhonesOf(out.contacts, identity)
              /\ out.response.secondaryContactIds =
                    {i \in identity :
                        out.contacts[i].linkPrecedence = "secondary"}

\* C8: a request with neither an email nor a phone number (absent or empty)
\* fails with InvalidRequest, reads nothing, writes nothing and leaves the
\* table as it was.
C8_InvalidRequestNoEffect ==
    \A email \in {Null, EmptyStr}, phoneNumber \in {Null, EmptyStr} :
        \A first \in {Null} \cup Ids(contacts) :
            LET out == identify(contacts, clock, email, phoneNumber, first)
            IN  /\ out.status = "InvalidRequest"
                /\ out.response = NoResponse
                /\ ~out.queried
                /\ out.commits = 0
                /\ out.contacts = contacts
                /\ out.clock = clock

\* C8 witness: an invalid request was made on a table that holds rows.
C8_Witness ==
    /\ call.status = "InvalidRequest"
    /\ call.created = "none"
    /\ Len(contacts) >= 2

\* C9: when no row has the given email or the given phone number, the call
\* inserts exactly one row, primary, unlinked, with the given fields, leaves
\* every other row alone and answers with the new id, the given email and
\* phone number and no secondary ids.
C9_NewIdentity ==
    \A r \in ValidRequests(contacts) :
        LET out == OutcomeOf(contacts, clock, r)
            new == Len(contacts) + 1
        IN  (\A i \in Ids(contacts) :
                /\ Truthy(r[1]) => contacts[i].email # r[1]
                /\ Truthy(r[2]) => contacts[i].phoneNumber # r[2])
            =>
              /\ out.status = "ok"
              /\ Len(out.contacts) = new
              /\ SubSeq(out.contacts, 1, Len(contacts)) = contacts
              /\ out.contacts[new].id = new
              /\ out.contacts[new].linkPrecedence = "primary"
              /\ out.contacts[new].linkedId = Null
              /\ out.contacts[new].email = r[1]
              /\ out.contacts[new].phoneNumber = r[2]
              /\ out.response =
                    ContactResponse(new, Given(r[1]), Given(r[2]), {})

\* C9 witness: the last call made a new primary on a table that already
\* held an identity, and the new row is the youngest one.
C9_Witness ==
    /\ call.status = "ok"
    /\ call.created = "primary"
    /\ Len(contacts) >= 2
    /\ contacts[Len(contacts)].linkPrecedence = "primary"

\* C10: a request that matches one identity and brings an email or a phone
\* number the identity does not have inserts exactly one row, secondary,
\* linked to the identity's primary, with the given fields; it demotes
\* nothing, and the response holds the known values, the new ones and the
\* new id among the secondary ids.
C10_Extension ==
    \A r \in ValidRequests(contacts) :
        LET matching == MatchingContacts(contacts, r[1], r[2])
            roots == {ResolvesTo(contacts, i) : i \in matching}
            out == OutcomeOf(contacts, clock, r)
            new == Len(contacts) + 1
        IN  \A primary \in roots :
              ( /\ roots = {primary}
                /\ primary # Null
                /\ \/ ~(Given(r[1]) \subseteq
                          EmailsOf(contacts, IdentityOf(contacts, primary)))
                   \/ ~(Given(r[2]) \subseteq
                          PhonesOf(contacts, IdentityOf(contacts, primary))) )
              =>
                /\ out.status = "ok"
                /\ Len(out.contacts) = new
                /\ SubSeq(out.contacts, 1, Len(contacts)) = contacts
                /\ out.contacts[new].linkPrecedence = "secondary"
                /\ out.contacts[new].linkedId = primary
                /\ out.contacts[new].email = r[1]
                /\ out.contacts[new].phoneNumber = r[2]
                /\ new \in out.response.secondaryContactIds
                /\ EmailsOf(contacts, IdentityOf(contacts, primary))
                      \cup Given(r[1]) \subseteq out.response.emails
                /\ PhonesOf(contacts, IdentityOf(contacts, primary))
                      \cup Given(r[2]) \subseteq out.response.phoneNumbers

\* C11: a call that a store failure ends, before its first commit or after
\* the commit of its demotions, leaves a table on which the same request,
\* run again, ends with the table an uninterrupted run ends with: nothing is
\* inserted twice and nothing is demoted again.
C11_RetrySafe ==
    \A r \in ValidRequests(contacts) :
        \A broken \in interrupted(contacts, clock, r[1], r[2]) :
            \A first \in FirstChoices(broken.contacts, r[1], r[2]) :
                LET again == identify(broken.contacts, broken.clock,
                                      r[1], r[2], first)
                IN  \E f \in FirstChoices(contacts, r[1], r[2]) :
                        /\ again.status = "ok"
                        /\ again.contacts =
                             identify(contacts, clock, r[1], r[2], f).contacts
                        /\ Demoted(contacts, broken)
                             \cap Demoted(broken.contacts, again) = {}

\* C11 witness: the last call was ended by a store failure after it had
\* committed a demotion.
C11_Witness ==
    /\ call.status = "StoreFailure"
    /\ call.demoted # {}
    /\ call.created = "none"

\* The call of thread t has committed its demotions (line 134) and has yet
\* to commit the row it inserts (line 161).
PartlyWritten(t) ==
    /\ sessions[t].pc = "insert_secondary"
    /\ sessions[t].others # {}

\* This step is the query of line 96 of a call of thread u.
ReadsTable(u) ==
    /\ ~Active(u)
    /\ sessions'[u].pc \notin {"idle", "done"}

\* C12: the writes of one call, its demotions and its new row, take effect
\* in one step: no other call queries the table while some of them are
\* committed and the rest are not.
C12_AtomicWrites ==
    [][\A t \in Threads : \A u \in Threads \ {t} :
            PartlyWritten(t) => ~ReadsTable(u)]_vars

\* C13: the primary a row resolves to by following linkedId was created no
\* later than the row.
C13_PrimaryIsOldest ==
    \A i \in Ids(contacts) :
        LET p == ResolvesTo(contacts, i)
        IN  p # Null => contacts[p].createdAt <= contacts[i].createdAt

\* C13 witness: a row that was demoted resolves to a primary created
\* before it.
C13_Witness ==
    \E i \in Ids(contacts) :
        /\ contacts[i].linkPrecedence = "secondary"
        /\ contacts[i].updatedAt # contacts[i].createdAt
        /\ ResolvesTo(contacts, i) # Null
        /\ contacts[ResolvesTo(contacts, i)].createdAt < contacts[i].createdAt

\* C14: a call keeps every row and its id, email, phoneNumber and createdAt,
\* inserts at most one row, and changes linkPrecedence or linkedId only of a
\* matched primary that is not the oldest matched primary, from primary to
\* secondary; a secondary stays secondary with the linkedId it has.
C14_Frame ==
    \A r \in Requests(contacts) :
        LET after     == OutcomeOf(contacts, clock, r).contacts
            primaries == PrimaryContacts(contacts,
                             MatchingContacts(contacts, r[1], r[2]))
        IN  /\ Len(after) \in {Len(contacts), Len(contacts) + 1}
            /\ \A i \in Ids(contacts) :
                  /\ after[i].id = contacts[i].id
                  /\ after[i].email = contacts[i].email
                  /\ after[i].phoneNumber = contacts[i].phoneNumber
                  /\ after[i].createdAt = contacts[i].createdAt
                  /\ (\/ after[i].linkPrecedence # contacts[i].linkPrecedence
                      \/ after[i].linkedId # contacts[i].linkedId)
                        => /\ i \in primaries
                           /\ \E j \in primaries :
                                 contacts[j].createdAt < contacts[i].createdAt
                           /\ after[i].linkPrecedence = "secondary"
                  /\ contacts[i].linkPrecedence = "secondary"
                        => /\ after[i].linkPrecedence = "secondary"
                           /\ after[i].linkedId = contacts[i].linkedId

\* C14 witness: the last call demoted a primary and left a secondary that
\* was there before as it was.
C14_Witness ==
    /\ call.demoted # {}
    /\ \E i \in Ids(contacts) \ call.demoted :
          /\ contacts[i].linkPrecedence = "secondary"
          /\ contacts[i].updatedAt = contacts[i].createdAt

\* C15: every row has an email or a phone number, and no call inserts a row
\* that has neither.
C15_HasContactField ==
    /\ \A i \in Ids(contacts) :
          Truthy(contacts[i].email) \/ Truthy(contacts[i].phoneNumber)
    /\ \A r \in Requests(contacts) :
          LET after == OutcomeOf(contacts, clock, r).contacts
          IN  \A i \in Ids(after) \ Ids(contacts) :
                  Truthy(after[i].email) \/ Truthy(after[i].phoneNumber)

\* C15 witness: the last call inserted a row, and a row has no email.
C15_Witness ==
    /\ call.created # "none"
    /\ \E i \in Ids(contacts) :
          ~Truthy(contacts[i].email) /\ Truthy(contacts[i].phoneNumber)

\* C16: the linkedId of every secondary is the id of a row created before
\* it, so the lookup of find_primary_contact meets no cycle and no missing
\* row and ends at a primary; no valid request fails for lack of a primary.
C16_LookupEndsAtPrimary ==
    /\ \A i \in Ids(contacts) :
          contacts[i].linkPrecedence = "secondary" =>
              LET p == find_primary_contact(contacts, contacts[i].linkedId)
              IN  /\ contacts[i].linkedId \in Ids(contacts)
                  /\ contacts[contacts[i].linkedId].createdAt
                        < contacts[i].createdAt
                  /\ p \in Ids(contacts)
                  /\ contacts[p].linkPrecedence = "primary"
    /\ \A r \in ValidRequests(contacts) :
          OutcomeOf(contacts, clock, r).status = "ok"

\* C16 witness: a lookup that takes two hops to reach its primary.
C16_Witness ==
    \E i, j \in Ids(contacts) :
        /\ contacts[i].linkedId = j
        /\ contacts[j].linkPrecedence = "secondary"
        /\ find_primary_contact(contacts, i) = contacts[j].linkedId

\* C17: the primary a call works with, its writes and its response are the
\* same whichever matched row the store returns first; when every matched
\* row is a secondary, all of them resolve to one primary.
C17_OrderIndependent ==
    \A r, q \in ValidRequests(contacts) :
        (r[1] = q[1] /\ r[2] = q[2]) =>
            /\ OutcomeOf(contacts, clock, r).contacts
                 = OutcomeOf(contacts, clock, q).contacts
            /\ OutcomeOf(contacts, clock, r).response
                 = OutcomeOf(contacts, clock, q).response
            /\ (r[3] # Null /\ q[3] # Null) =>
                 ResolvesTo(contacts, r[3]) = ResolvesTo(contacts, q[3])

\* C18: no two primaries have the same email or the same phone number; so
\* a call matches at most two primaries, demotes at most one row, and
\* inserts nothing when it demotes.
C18_PrimariesDisjoint ==
    /\ \A i, j \in Ids(contacts) :
          (/\ i # j
           /\ contacts[i].linkPrecedence = "primary"
           /\ contacts[j].linkPrecedence = "primary")
          => /\ Given(contacts[i].email) \cap Given(contacts[j].email) = {}
             /\ Given(contacts[i].phoneNumber)
                  \cap Given(contacts[j].phoneNumber) = {}
    /\ \A r \in ValidRequests(contacts) :
          LET out       == OutcomeOf(contacts, clock, r)
              primaries == PrimaryContacts(contacts,
                               MatchingContacts(contacts, r[1], r[2]))
          IN  /\ Cardinality(primaries) <= 2
              /\ Cardinality(Demoted(contacts, out)) <= 1
              /\ Demoted(contacts, out) # {}
                    => Created(contacts, out) = "none"

\* C18 witness: the last call demoted one row and inserted none, and two
\* primaries remain.
C18_Witness ==
    /\ call.status = "ok"
    /\ Cardinality(call.demoted) = 1
    /\ call.created = "none"
    /\ \E i \in Ids(contacts) \ call.demoted :
          contacts[i].linkPrecedence = "secondary"

\* C19: a successful call answers with the id of a row that is primary
\* after the call, with secondary ids that are linked to that row and do
\* not include it, and with the email and the phone number of the request.
C19_ResponseSound ==
    \A r \in ValidRequests(contacts) :
        LET out   == OutcomeOf(contacts, clock, r)
            after == out.contacts
            resp  == out.response
        IN  out.status = "ok" =>
              /\ resp.primaryContactId \in Ids(after)
              /\ after[resp.primaryContactId].linkPrecedence = "primary"
              /\ resp.primaryContactId \notin resp.secondaryContactIds
              /\ \A i \in resp.secondaryContactIds :
                    /\ i \in Ids(after)
                    /\ after[i].linkedId = resp.primaryContactId
              /\ Given(r[1]) \subseteq resp.emails
              /\ Given(r[2]) \subseteq resp.phoneNumbers

\* C19 witness: the last call succeeded and inserted a secondary.
C19_Witness ==
    /\ call.status = "ok"
    /\ call.created = "secondary"
    /\ call.demoted = {}

====
